---- MODULE Spec2Model ----
(***************************************************************************)
(* Model of the CodeConnect graph builder (src/src/graph.js).              *)
(*                                                                         *)
(* JavaScript strings are modelled as sequences of one-character strings,  *)
(* so that concatenation, endsWith and includes are computed as the code   *)
(* computes them.  A missing property of an object is a field that is      *)
(* absent from the record; the falsy values undefined, null and '' of a    *)
(* string-valued expression are the empty sequence.  A node or edge        *)
(* {data: {...}} is modelled by its data record.  The pass-through         *)
(* attributes language, relativePath, functionType and params are not      *)
(* carried.                                                                *)
(***************************************************************************)
EXTENDS Integers, Sequences, FiniteSets, TLC

VARIABLES
    workspaceFolder,  \* vscode.workspace.workspaceFolders?.[0]?.uri.fsPath
    filesMap,         \* the caller's Map path -> File Record, in insertion order
    nodesRef,         \* this.nodes: a reference to an array in the heap
    edgesRef,         \* this.edges: a reference to an array in the heap
    heap,             \* the arrays that are alive, by reference
    nodeIdCounter,    \* this.nodeIdCounter
    nodeMap,          \* this.nodeMap
    payload,          \* the payload the last buildGraph call returned, if it returned
    snapshot,         \* the contents of that payload when it was returned
    ret,              \* the outcome of the last call on the builder
    aborted,          \* history: the call before the last buildGraph was an aborted buildGraph
    idLog,            \* history: the getNodeId calls since the last reset, as [key, id]
    storeCalls,       \* number of direct store calls since the last build
    stale,            \* history: the builder held nodes and edges when the last
                      \* buildGraph call began
    walk,             \* the files.forEach of buildFolderNodes, one loop test at a time
    watcher,          \* the FileWatcher: pendingChanges, debounceTimer, isPaused,
                      \* and the history of what it accepted and delivered
    ext               \* the extension: the files on disk, scanner.files,
                      \* currentPanel, the handleFileChanges and scanWorkspace
                      \* calls in flight, and the last message posted

vars == <<workspaceFolder, filesMap, nodesRef, edgesRef, heap, nodeIdCounter,
          nodeMap, payload, snapshot, ret, aborted, idLog, storeCalls, stale, walk,
          watcher, ext>>

\* the state of the builder and of its caller
builderVars == <<workspaceFolder, filesMap, nodesRef, edgesRef, heap, nodeIdCounter,
                 nodeMap, payload, snapshot, ret, aborted, idLog, storeCalls>>

----------------------------------------------------------------------------
(* Bounds *)

MaxFiles == 3
MaxStoreFiles == 2
MaxCalls == 2
MaxImports == 2
MaxLine == 5
MaxEvents == 3       \* file events of the extension specification

----------------------------------------------------------------------------
(* Strings *)

DigitChars == <<"0", "1", "2", "3", "4", "5", "6", "7", "8", "9">>

RECURSIVE Digits(_)
Digits(n) ==
    IF n < 10 THEN <<DigitChars[n + 1]>>
    ELSE Digits(n \div 10) \o <<DigitChars[(n % 10) + 1]>>

TypeStr(t) ==
    CASE t = "folder"   -> <<"f", "o", "l", "d", "e", "r">>
      [] t = "file"     -> <<"f", "i", "l", "e">>
      [] t = "function" -> <<"f", "u", "n", "c", "t", "i", "o", "n">>
      [] t = "contains" -> <<"c", "o", "n", "t", "a", "i", "n", "s">>
      [] t = "imports"  -> <<"i", "m", "p", "o", "r", "t", "s">>
      [] t = "calls"    -> <<"c", "a", "l", "l", "s">>
      [] t = "class"    -> <<"c", "l", "a", "s", "s">>

EndsWith(s, t) ==
    /\ Len(t) <= Len(s)
    /\ SubSeq(s, Len(s) - Len(t) + 1, Len(s)) = t

Includes(s, t) ==
    \E i \in 0..(Len(s) - Len(t)) : SubSeq(s, i + 1, i + Len(t)) = t

LastSlash(p) ==
    IF \E i \in 1..Len(p) : p[i] = "/"
    THEN CHOOSE i \in 1..Len(p) : p[i] = "/" /\ \A j \in (i + 1)..Len(p) : p[j] # "/"
    ELSE 0

\* path.dirname, POSIX, for paths without a trailing slash
Dirname(p) ==
    LET i == LastSlash(p) IN
    IF i = 0 THEN <<".">>
    ELSE IF i = 1 THEN <<"/">>
    ELSE SubSeq(p, 1, i - 1)

\* path.basename, POSIX, for paths without a trailing slash
Basename(p) == SubSeq(p, LastSlash(p) + 1, Len(p))

\* path.join(a, b) for normalized a and b (no '.', '..' or empty segments)
PathJoin(a, b) ==
    IF a = <<>> THEN b
    ELSE IF a[Len(a)] = "/" THEN a \o b
    ELSE a \o <<"/">> \o b

RECURSIVE FoldSeq(_, _, _)
FoldSeq(Op(_, _), acc, s) ==
    IF s = <<>> THEN acc ELSE FoldSeq(Op, Op(acc, Head(s)), Tail(s))

----------------------------------------------------------------------------
(* The builder.  While a call runs, the builder is the record              *)
(* [nodes, edges, nodeIdCounter, nodeMap, threw, log]: the contents of the *)
(* two arrays, the counter, the map, whether an exception is propagating,  *)
(* and the history of the getNodeId calls since the last reset.            *)

Null == <<>>

Has(m, key) == key \in DOMAIN m

NodeKey(type, identifier) == TypeStr(type) \o <<":">> \o identifier

FuncKey(file, func) ==
    file.path \o <<":">> \o func.name \o <<":">> \o Digits(func.line)

\* reset() without this.nodeMap.clear()
ResetKeepsNodeMap(b) ==
    [nodes |-> <<>>, edges |-> <<>>, nodeIdCounter |-> 0,
     nodeMap |-> b.nodeMap, threw |-> FALSE, log |-> <<>>]

\* reset()
Reset(b) ==
    [nodes |-> <<>>, edges |-> <<>>, nodeIdCounter |-> 0,
     nodeMap |-> <<>>, threw |-> FALSE, log |-> <<>>]

\* getNodeId without the increment of the counter
GetNodeIdNoIncrement(b, type, identifier) ==
    LET key == NodeKey(type, identifier) IN
    IF Has(b.nodeMap, key)
    THEN [id |-> b.nodeMap[key],
          b  |-> [b EXCEPT !.log = Append(@, [key |-> key, id |-> b.nodeMap[key]])]]
    ELSE LET id == TypeStr(type) \o <<"-">> \o Digits(b.nodeIdCounter) IN
         [id |-> id, b |-> [b EXCEPT !.log = Append(@, [key |-> key, id |-> id])]]

\* getNodeId(type, identifier): [id, b]
GetNodeId(b, type, identifier) ==
    LET key == NodeKey(type, identifier) IN
    IF Has(b.nodeMap, key)
    THEN [id |-> b.nodeMap[key],
          b  |-> [b EXCEPT !.log = Append(@, [key |-> key, id |-> b.nodeMap[key]])]]
    ELSE LET id == TypeStr(type) \o <<"-">> \o Digits(b.nodeIdCounter) IN
         [id |-> id,
          b  |-> [b EXCEPT !.nodeIdCounter = @ + 1,
                           !.log = Append(@, [key |-> key, id |-> id])]]

\* nodeData.path || nodeData.id
PathOrId(nodeData) ==
    IF "path" \in DOMAIN nodeData /\ nodeData.path # <<>>
    THEN nodeData.path
    ELSE nodeData.id

\* addNode without the test of the registry
AddNodeNoDedup(b, nodeData) ==
    [id |-> nodeData.id,
     b  |-> [b EXCEPT !.nodes = Append(@, nodeData),
                      !.nodeMap = (NodeKey(nodeData.type, PathOrId(nodeData))
                                      :> nodeData.id) @@ @]]

\* addNode(nodeData): [id, b]
AddNode(b, nodeData) ==
    LET key == NodeKey(nodeData.type, PathOrId(nodeData))
        existingId == IF Has(b.nodeMap, key) THEN b.nodeMap[key] ELSE Null
    IN  IF existingId # Null
        THEN [id |-> existingId, b |-> b]
        ELSE [id |-> nodeData.id,
              b  |-> [b EXCEPT !.nodes = Append(@, nodeData),
                               !.nodeMap = (key :> nodeData.id) @@ @]]

EdgeKey(e) == e.source \o <<"-">> \o e.target \o <<"-">> \o TypeStr(e.type)

\* edgeData.label || ''
EdgeLabel(edgeData) ==
    IF "label" \in DOMAIN edgeData THEN edgeData.label ELSE <<>>

\* addEdge(edgeData) without the check for an edge with the same key
AddEdgeNoDedup(b, edgeData) ==
    [b EXCEPT !.edges = Append(@,
        [id     |-> <<"e", "d", "g", "e", "-">> \o Digits(Len(b.edges)),
         source |-> edgeData.source,
         target |-> edgeData.target,
         type   |-> edgeData.type,
         label  |-> EdgeLabel(edgeData)])]

\* addEdge(edgeData)
AddEdge(b, edgeData) ==
    IF \E i \in 1..Len(b.edges) : EdgeKey(b.edges[i]) = EdgeKey(edgeData)
    THEN b
    ELSE [b EXCEPT !.edges = Append(@,
             [id     |-> <<"e", "d", "g", "e", "-">> \o Digits(Len(b.edges)),
              source |-> edgeData.source,
              target |-> edgeData.target,
              type   |-> edgeData.type,
              label  |-> EdgeLabel(edgeData)])]

\* the walk without the test of the workspace folder
RECURSIVE WalkUpThroughRoot(_, _, _)
WalkUpThroughRoot(currentPath, ws, folders) ==
    IF currentPath # Dirname(currentPath)
    THEN WalkUpThroughRoot(Dirname(currentPath), ws,
                IF \E i \in 1..Len(folders) : folders[i] = currentPath
                THEN folders ELSE Append(folders, currentPath))
    ELSE folders

\* the ancestry walk of buildFolderNodes, adding to the Set folders
RECURSIVE WalkUp(_, _, _)
WalkUp(currentPath, ws, folders) ==
    IF currentPath # ws /\ currentPath # Dirname(currentPath)
    THEN WalkUp(Dirname(currentPath), ws,
                IF \E i \in 1..Len(folders) : folders[i] = currentPath
                THEN folders ELSE Append(folders, currentPath))
    ELSE folders

\* buildFolderNodes(files)
BuildFolderNodes(b, files, ws) ==
    IF ws = <<>> THEN b
    ELSE
      LET folders == FoldSeq(LAMBDA acc, file : WalkUp(Dirname(file.path), ws, acc),
                             <<>>, files)
          Step(acc, folderPath) ==
              LET g == GetNodeId(acc, "folder", folderPath) IN
              AddNode(g.b, [id |-> g.id, label |-> Basename(folderPath),
                            type |-> "folder", path |-> folderPath]).b
      IN  FoldSeq(Step, b, folders)

\* the forEach without the contains edge from the file
FunctionNodeStepNoEdge(b, file, fileNodeId, func) ==
    LET g == GetNodeId(b, "function", FuncKey(file, func))
    IN  AddNode(g.b, [id |-> g.id, label |-> func.name, type |-> "function",
                      path |-> file.path, line |-> func.line,
                      endLine |-> func.endLine]).b

\* the forEach over file.functions in buildFileNodes
FunctionNodeStep(b, file, fileNodeId, func) ==
    LET g == GetNodeId(b, "function", FuncKey(file, func))
        a == AddNode(g.b, [id |-> g.id, label |-> func.name, type |-> "function",
                           path |-> file.path, line |-> func.line,
                           endLine |-> func.endLine])
    IN  AddEdge(a.b, [source |-> fileNodeId, target |-> a.id,
                      type |-> "contains", label |-> <<>>])

\* the body without the link to the parent folder
FileNodeStepNoParentLink(b, file) ==
    IF b.threw THEN b
    ELSE
      LET g == GetNodeId(b, "file", file.path) IN
      IF {"functions", "imports", "exports"} \subseteq DOMAIN file
      THEN
        LET a == AddNode(g.b, [id |-> g.id, label |-> Basename(file.path),
                               type |-> "file", path |-> file.path,
                               functionCount |-> Len(file.functions),
                               importCount |-> Len(file.imports),
                               exportCount |-> Len(file.exports)])
            p == GetNodeId(a.b, "folder", Dirname(file.path))
        IN  FoldSeq(LAMBDA acc, func : FunctionNodeStep(acc, file, a.id, func),
                    p.b, file.functions)
      ELSE [g.b EXCEPT !.threw = TRUE]

\* the body of the forEach over files in buildFileNodes
FileNodeStep(b, file) ==
    IF b.threw THEN b
    ELSE
      LET g == GetNodeId(b, "file", file.path) IN
      IF {"functions", "imports", "exports"} \subseteq DOMAIN file
      THEN
        LET a == AddNode(g.b, [id |-> g.id, label |-> Basename(file.path),
                               type |-> "file", path |-> file.path,
                               functionCount |-> Len(file.functions),
                               importCount |-> Len(file.imports),
                               exportCount |-> Len(file.exports)])
            parentFolder == Dirname(file.path)
            p == GetNodeId(a.b, "folder", parentFolder)
            linked == IF Has(p.b.nodeMap, NodeKey("folder", parentFolder))
                      THEN AddEdge(p.b, [source |-> p.id, target |-> a.id,
                                         type |-> "contains", label |-> <<>>])
                      ELSE p.b
        IN  FoldSeq(LAMBDA acc, func : FunctionNodeStep(acc, file, a.id, func),
                    linked, file.functions)
      ELSE [g.b EXCEPT !.threw = TRUE]

\* buildFileNodes(files)
BuildFileNodes(b, files) == FoldSeq(FileNodeStep, b, files)

Extensions ==
    << <<".", "j", "s">>, <<".", "j", "s", "x">>, <<".", "t", "s">>,
       <<".", "t", "s", "x">>, <<".", "p", "y">> >>

IndexName == <<"i", "n", "d", "e", "x">>

\* the keys of filePathMap, in iteration order
FilePaths(files) ==
    FoldSeq(LAMBDA acc, file :
                IF \E i \in 1..Len(acc) : acc[i] = file.path
                THEN acc ELSE Append(acc, file.path),
            <<>>, files)

KnownFile(paths, p) == \E i \in 1..Len(paths) : paths[i] = p

\* the loop over extensions of resolveImportTarget, from extension i on:
\* the path it returns, or Null
RECURSIVE TryExtensions(_, _, _)
TryExtensions(importSource, paths, i) ==
    IF i > Len(Extensions) THEN Null
    ELSE
      LET withExt   == importSource \o Extensions[i]
          indexPath == PathJoin(importSource, IndexName \o Extensions[i])
      IN  IF KnownFile(paths, withExt) THEN withExt
          ELSE IF KnownFile(paths, indexPath) THEN indexPath
          ELSE TryExtensions(importSource, paths, i + 1)

\* the last loop of resolveImportTarget: the path it returns, or Null
FuzzyMatch(importSource, paths) ==
    IF \E i \in 1..Len(paths) :
           EndsWith(paths[i], importSource) \/ Includes(paths[i], importSource)
    THEN paths[CHOOSE i \in 1..Len(paths) :
                 /\ EndsWith(paths[i], importSource) \/ Includes(paths[i], importSource)
                 /\ \A j \in 1..(i - 1) :
                       ~(EndsWith(paths[j], importSource) \/ Includes(paths[j], importSource))]
    ELSE Null

\* resolveImportTarget with the substring scan before the loop over extensions
ResolvedPathFuzzyFirst(importSource, paths) ==
    IF KnownFile(paths, importSource) THEN importSource
    ELSE IF FuzzyMatch(importSource, paths) # Null
         THEN FuzzyMatch(importSource, paths)
    ELSE TryExtensions(importSource, paths, 1)

\* the file path resolveImportTarget settles on, or Null
ResolvedPath(importSource, paths) ==
    IF KnownFile(paths, importSource) THEN importSource
    ELSE IF TryExtensions(importSource, paths, 1) # Null
         THEN TryExtensions(importSource, paths, 1)
    ELSE FuzzyMatch(importSource, paths)

\* resolveImportTarget(importSource, filePathMap): [id, b], id = Null when not found
ResolveImportTarget(b, importSource, paths) ==
    LET target == ResolvedPath(importSource, paths) IN
    IF target = Null THEN [id |-> Null, b |-> b]
    ELSE GetNodeId(b, "file", target)

\* the body with the imported name as the label, also when it is "*"
ImportStepRawLabel(b, fileNodeId, imp, paths) ==
    LET r == ResolveImportTarget(b, imp.source, paths) IN
    IF r.id # Null
    THEN AddEdge(r.b, [source |-> fileNodeId, target |-> r.id, type |-> "imports",
                       label |-> imp.imported])
    ELSE r.b

\* the body of the forEach over file.imports in buildEdges
ImportStep(b, fileNodeId, imp, paths) ==
    LET r == ResolveImportTarget(b, imp.source, paths) IN
    IF r.id # Null
    THEN AddEdge(r.b, [source |-> fileNodeId, target |-> r.id, type |-> "imports",
                       label |-> IF imp.imported # <<"*">> THEN imp.imported ELSE <<>>])
    ELSE r.b

\* a find that takes the first function of the file for any name
FindFunctionAnyName(file, name) == IF file.functions # <<>> THEN 1 ELSE 0

\* file.functions.find(f => f.name === call.name): its index, or 0
FindFunction(file, name) ==
    IF \E i \in 1..Len(file.functions) : file.functions[i].name = name
    THEN CHOOSE i \in 1..Len(file.functions) :
            /\ file.functions[i].name = name
            /\ \A j \in 1..(i - 1) : file.functions[j].name # name
    ELSE 0

\* the scope test with endLine left out of the range
InScopeExclusiveEnd(call, func) == call.line >= func.line /\ call.line < func.endLine

\* call.line >= func.line && call.line <= func.endLine
InScope(call, func) == call.line >= func.line /\ call.line <= func.endLine

\* the body without the test of targetFunc
CallStepAnyName(b, file, funcNodeId, func, call) ==
    IF InScope(call, func)
    THEN LET t == FindFunction(file, call.name)
             key == IF t # 0 THEN FuncKey(file, file.functions[t])
                    ELSE FuncKey(file, call)
             g == GetNodeId(b, "function", key)
         IN  AddEdge(g.b, [source |-> funcNodeId, target |-> g.id,
                           type |-> "calls", label |-> <<>>])
    ELSE b

\* the body of the forEach over file.calls in buildEdges
CallStep(b, file, funcNodeId, func, call) ==
    IF InScope(call, func)
    THEN LET t == FindFunction(file, call.name) IN
         IF t # 0
         THEN LET g == GetNodeId(b, "function", FuncKey(file, file.functions[t]))
              IN  AddEdge(g.b, [source |-> funcNodeId, target |-> g.id,
                                type |-> "calls", label |-> <<>>])
         ELSE b
    ELSE b

\* the body of the forEach over file.functions in buildEdges
FunctionEdgeStep(b, file, func) ==
    IF b.threw THEN b
    ELSE
      LET g == GetNodeId(b, "function", FuncKey(file, func)) IN
      IF "calls" \in DOMAIN file
      THEN FoldSeq(LAMBDA acc, call : CallStep(acc, file, g.id, func, call),
                   g.b, file.calls)
      ELSE [g.b EXCEPT !.threw = TRUE]

\* the body of the forEach over files in buildEdges
FileEdgeStep(b, file, paths) ==
    IF b.threw THEN b
    ELSE
      LET g == GetNodeId(b, "file", file.path) IN
      IF "imports" \notin DOMAIN file THEN [g.b EXCEPT !.threw = TRUE]
      ELSE
        LET imported == FoldSeq(LAMBDA acc, imp : ImportStep(acc, g.id, imp, paths),
                                g.b, file.imports)
        IN  IF "functions" \notin DOMAIN file THEN [imported EXCEPT !.threw = TRUE]
            ELSE FoldSeq(LAMBDA acc, func : FunctionEdgeStep(acc, file, func),
                         imported, file.functions)

\* buildEdges(files)
BuildEdges(b, files) ==
    LET paths == FilePaths(files) IN
    FoldSeq(LAMBDA acc, file : FileEdgeStep(acc, file, paths), b, files)

CountType(s, t) == Cardinality({i \in 1..Len(s) : s[i].type = t})

\* getNodeCountsByType()
GetNodeCountsByType(nodes) ==
    [folder |-> CountType(nodes, "folder"), file |-> CountType(nodes, "file"),
     function |-> CountType(nodes, "function")]

\* the edge counts without a count of the calls edges
GetEdgeCountsNoCalls(edges) ==
    [contains |-> CountType(edges, "contains"), imports |-> CountType(edges, "imports"),
     calls |-> 0]

\* getEdgeCountsByType()
GetEdgeCountsByType(edges) ==
    [contains |-> CountType(edges, "contains"), imports |-> CountType(edges, "imports"),
     calls |-> CountType(edges, "calls")]

\* the stats of getGraphData()
GetStats(nodes, edges) ==
    [totalNodes |-> Len(nodes), totalEdges |-> Len(edges),
     nodesByType |-> GetNodeCountsByType(nodes),
     edgesByType |-> GetEdgeCountsByType(edges)]

\* buildGraph with the test for an empty map before reset()
BuildGraphEmptyBeforeReset(b, files, ws) ==
    IF files = <<>> THEN b
    ELSE BuildEdges(BuildFileNodes(BuildFolderNodes(Reset(b), files, ws), files), files)

\* buildGraph(filesMap) on builder b: the builder when the call ends
BuildGraph(b, files, ws) ==
    IF files = <<>> THEN Reset(b)
    ELSE BuildEdges(BuildFileNodes(BuildFolderNodes(Reset(b), files, ws), files), files)

\* filterByNodeType keeping the edges with one endpoint among the nodes
FilterByNodeTypeAnyEndpoint(nodes, edges, types) ==
    LET filteredNodes == SelectSeq(nodes, LAMBDA n : n.type \in types)
        nodeIds == {filteredNodes[i].id : i \in 1..Len(filteredNodes)}
        filteredEdges == SelectSeq(edges, LAMBDA e : e.source \in nodeIds
                                                       \/ e.target \in nodeIds)
    IN  [nodes |-> filteredNodes, edges |-> filteredEdges,
         stats |-> [totalNodes |-> Len(filteredNodes),
                    totalEdges |-> Len(filteredEdges)]]

\* filterByNodeType(types)
FilterByNodeType(nodes, edges, types) ==
    LET filteredNodes == SelectSeq(nodes, LAMBDA n : n.type \in types)
        nodeIds == {filteredNodes[i].id : i \in 1..Len(filteredNodes)}
        filteredEdges == SelectSeq(edges,
                             LAMBDA e : e.source \in nodeIds /\ e.target \in nodeIds)
    IN  [nodes |-> filteredNodes, edges |-> filteredEdges,
         stats |-> [totalNodes |-> Len(filteredNodes),
                    totalEdges |-> Len(filteredEdges)]]

----------------------------------------------------------------------------
(* The caller's map (Scanner.files): Map.set and Map.clear *)

\* files.set(filePath, parsed): a known key keeps its place
MapSet(m, rec) ==
    IF \E i \in 1..Len(m) : m[i].path = rec.path
    THEN [i \in 1..Len(m) |-> IF m[i].path = rec.path THEN rec ELSE m[i]]
    ELSE Append(m, rec)

\* the maps the caller can hand to the next buildGraph: the same map, the
\* cleared map, or the map with one record scanned
NextMaps(m, records, maxFiles) ==
    {m, <<>>} \cup {mm \in {MapSet(m, rec) : rec \in records} : Len(mm) <= maxFiles}

----------------------------------------------------------------------------
(* The heap of arrays.  getGraphData() returns this.nodes and this.edges   *)
(* themselves, so a payload and the builder can share an array; reset()    *)
(* gives the builder two new arrays.                                       *)

Refs == 1..4

NoPayload == [held |-> FALSE]

PayloadRefs == IF payload.held THEN {payload.nodes, payload.edges} ELSE {}

Alloc(used) == CHOOSE r \in Refs : r \notin used /\ \A q \in Refs : q < r => q \in used

\* the builder as the calls below find it
Cur ==
    [nodes |-> heap[nodesRef], edges |-> heap[edgesRef],
     nodeIdCounter |-> nodeIdCounter, nodeMap |-> nodeMap,
     threw |-> FALSE, log |-> idLog]

\* the contents of the payload the caller holds
PayloadNodes == heap[payload.nodes]
PayloadEdges == heap[payload.edges]

\* buildFolderNodes is not running
NoWalk == [active |-> FALSE]

\* new FileWatcher(onChange): no pending change, no timer, isPaused undefined.
\* accepted, quiet, cleared and last are history: the paths accepted since the
\* last onChange, whether no path was accepted since the timer was armed,
\* whether clearPendingChanges was called, and the last operation.
\* no call in flight
Idle == [pc |-> "idle", todo |-> <<>>]

\* activate(context): new Scanner(), no panel; nothing posted, and no file
\* in the workspace.  events counts the file events so far; done is
\* history: how the last handleFileChanges ended.
NewExtension ==
    [disk |-> {}, events |-> 0, files |-> <<>>, panel |-> FALSE, handler |-> Idle, scan |-> Idle,
     posted |-> [command |-> "none"], done |-> [op |-> "none"]]

NewWatcher ==
    [pendingChanges |-> <<>>, debounceTimer |-> FALSE, isPaused |-> FALSE,
     accepted |-> {}, quiet |-> TRUE, cleared |-> FALSE, last |-> [op |-> "new"]]

----------------------------------------------------------------------------
(* Inputs *)

WorkspaceRoot == <<"/", "w">>       \* /w

PathA     == <<"/", "w", "/", "a", ".", "j", "s">>      \* /w/a.js
PathB     == <<"/", "w", "/", "b", ".", "j", "s">>      \* /w/b.js
PathBts   == <<"/", "w", "/", "b", ".", "t", "s">>      \* /w/b.ts
PathIndex == <<"/", "w", "/", "b", "/", "i", "n", "d", "e", "x", ".", "j", "s">>   \* /w/b/index.js
PathSub   == <<"/", "w", "/", "b", "b", "/", "b", ".", "j", "s">>    \* /w/bb/b.js

SourceB   == <<"/", "w", "/", "b">>         \* /w/b : './b' of /w/a.js, resolved
SourcePkg == <<"b", "b">>              \* the bare specifier 'bb'

NameFoo == <<"f", "o", "o">>
NameBar == <<"b", "a", "r">>
Star    == <<"*">>

Func(name, line, endLine) == [name |-> name, line |-> line, endLine |-> endLine]
Call(name, line) == [name |-> name, line |-> line]
Import(source, imported) == [source |-> source, imported |-> imported]

FileRecord(path, functions, imports, calls) ==
    [path |-> path, functions |-> functions, imports |-> imports,
     exports |-> <<>>, calls |-> calls]

\* a record without the property field
Without(rec, field) == [f \in (DOMAIN rec) \ {field} |-> rec[f]]

ImportLists ==
    { <<>>,
      <<Import(SourceB, NameBar)>>,
      <<Import(SourcePkg, Star)>>,
      <<Import(PathB, NameBar)>> }

\* /w/a.js: function foo on lines 0-2 calling bar, with each list of imports
RecordsA == {FileRecord(PathA, <<Func(NameFoo, 0, 2)>>, imports, <<Call(NameBar, 1)>>) :
                imports \in ImportLists}

RecB1 == FileRecord(PathB, <<Func(NameBar, 0, 1)>>, <<>>, <<>>)
RecB2 == FileRecord(PathB, <<Func(NameFoo, 0, 2), Func(NameBar, 3, 4)>>, <<>>,
                    <<Call(NameBar, 1)>>)

\* /w/b.js: well-formed records, and records with a property missing
RecordsB ==
    { RecB1, RecB2,
      Without(RecB1, "functions"),
      Without(FileRecord(PathB, <<>>, <<>>, <<>>), "calls") }

RecordsOther ==
    {FileRecord(path, <<>>, <<>>, <<>>) : path \in {PathBts, PathIndex, PathSub}}

FileRecords == RecordsA \cup RecordsB \cup RecordsOther

\* the records of the store specification
StoreRecords ==
    { RecB2, Without(RecB1, "calls"),
      FileRecord(PathA, <<Func(NameFoo, 0, 2)>>, <<Import(SourceB, NameBar)>>,
                 <<Call(NameBar, 1)>>) }

\* arguments of the direct calls of the store specification
StoreNodes ==
    { [id |-> <<"x">>, type |-> "file", path |-> PathA],
      [id |-> <<"y">>, type |-> "class"] }

StoreEdges ==
    { [source |-> <<"f", "i", "l", "e", "-", "0">>,
       target |-> <<"f", "u", "n", "c", "t", "i", "o", "n", "-", "2">>,
       type |-> "contains", label |-> <<>>],
      [source |-> <<"x">>, target |-> <<"y">>, type |-> "calls"] }

StoreIds == { <<"function", FuncKey(RecB2, RecB2.functions[1])>> }

FilterTypes == { {"file", "function"} }

----------------------------------------------------------------------------
(* The state machine *)

\* new GraphBuilder(), and a caller that holds no payload
InitBuilder ==
    /\ filesMap = <<>>
    /\ nodesRef = 1
    /\ edgesRef = 2
    /\ heap = [r \in {1, 2} |-> <<>>]
    /\ nodeIdCounter = 0
    /\ nodeMap = <<>>
    /\ payload = NoPayload
    /\ snapshot = [nodes |-> <<>>, edges |-> <<>>]
    /\ ret = [op |-> "new", threw |-> FALSE]
    /\ aborted = FALSE
    /\ idLog = <<>>
    /\ storeCalls = 0
    /\ stale = FALSE
    /\ walk = NoWalk
    /\ watcher = NewWatcher
    /\ ext = NewExtension

Init == workspaceFolder = WorkspaceRoot /\ InitBuilder

\* store the builder b, with its arrays in place
StoreInPlace(b) ==
    /\ heap' = [heap EXCEPT ![nodesRef] = b.nodes, ![edgesRef] = b.edges]
    /\ nodeIdCounter' = b.nodeIdCounter
    /\ nodeMap' = b.nodeMap
    /\ idLog' = b.log
    /\ UNCHANGED <<nodesRef, edgesRef>>

\* store the builder b, whose arrays are the new arrays of reset()
StoreInNew(b, kept) ==
    LET n == Alloc(kept)
        e == Alloc(kept \cup {n})
    IN  /\ nodesRef' = n
        /\ edgesRef' = e
        /\ heap' = [r \in kept \cup {n, e} |->
                       IF r = n THEN b.nodes ELSE IF r = e THEN b.edges ELSE heap[r]]
        /\ nodeIdCounter' = b.nodeIdCounter
        /\ nodeMap' = b.nodeMap
        /\ idLog' = b.log

\* payload = graphBuilder.buildGraph(X); the caller lets go of the payload it
\* had, also when the call throws
DoBuildGraph(X) ==
    LET b == BuildGraph(Cur, X, workspaceFolder) IN
    /\ filesMap' = X
    /\ storeCalls' = 0
    /\ aborted' = (ret = [op |-> "buildGraph", threw |-> TRUE])
    /\ StoreInNew(b, {})
    /\ IF b.threw
       THEN /\ payload' = NoPayload
            /\ snapshot' = [nodes |-> <<>>, edges |-> <<>>]
            /\ ret' = [op |-> "buildGraph", threw |-> TRUE]
       ELSE /\ payload' = [held |-> TRUE, nodes |-> nodesRef', edges |-> edgesRef',
                           stats |-> GetStats(b.nodes, b.edges)]
            /\ snapshot' = [nodes |-> b.nodes, edges |-> b.edges]
            /\ ret' = [op |-> "buildGraph", threw |-> FALSE]
    /\ UNCHANGED workspaceFolder

\* graphBuilder.reset()
DoReset ==
    /\ StoreInNew(Reset(Cur), PayloadRefs)
    /\ storeCalls' = 0
    /\ ret' = [op |-> "reset", threw |-> FALSE]
    /\ UNCHANGED <<workspaceFolder, filesMap, payload, snapshot, aborted>>

\* graphBuilder.addNode(nodeData)
DoAddNode(nodeData) ==
    /\ storeCalls < MaxCalls
    /\ storeCalls' = storeCalls + 1
    /\ LET a == AddNode(Cur, nodeData) IN
       /\ StoreInPlace(a.b)
       /\ ret' = [op |-> "addNode", threw |-> FALSE, arg |-> nodeData, id |-> a.id]
    /\ UNCHANGED <<workspaceFolder, filesMap, payload, snapshot, aborted>>

\* graphBuilder.addEdge(edgeData)
DoAddEdge(edgeData) ==
    /\ storeCalls < MaxCalls
    /\ storeCalls' = storeCalls + 1
    /\ StoreInPlace(AddEdge(Cur, edgeData))
    /\ ret' = [op |-> "addEdge", threw |-> FALSE, arg |-> edgeData]
    /\ UNCHANGED <<workspaceFolder, filesMap, payload, snapshot, aborted>>

\* graphBuilder.getNodeId(type, identifier)
DoGetNodeId(type, identifier) ==
    /\ storeCalls < MaxCalls
    /\ storeCalls' = storeCalls + 1
    /\ LET g == GetNodeId(Cur, type, identifier) IN
       /\ StoreInPlace(g.b)
       /\ ret' = [op |-> "getNodeId", threw |-> FALSE,
                   arg |-> NodeKey(type, identifier), id |-> g.id]
    /\ UNCHANGED <<workspaceFolder, filesMap, payload, snapshot, aborted>>

\* graphBuilder.filterByNodeType(types)
DoFilterByNodeType(types) ==
    /\ ret' = [op |-> "filterByNodeType", threw |-> FALSE, types |-> types,
               value |-> FilterByNodeType(heap[nodesRef], heap[edgesRef], types)]
    /\ UNCHANGED <<workspaceFolder, filesMap, nodesRef, edgesRef, heap, nodeIdCounter,
                   nodeMap, payload, snapshot, aborted, idLog, storeCalls>>

Next ==
    /\ \E X \in NextMaps(filesMap, FileRecords, MaxFiles) : DoBuildGraph(X)
    /\ UNCHANGED <<stale, walk, watcher, ext>>

Spec == Init /\ [][Next]_vars

NextStore ==
    /\ \/ \E X \in NextMaps(filesMap, StoreRecords, MaxStoreFiles) : DoBuildGraph(X)
       \/ DoReset
       \/ \E nodeData \in StoreNodes : DoAddNode(nodeData)
       \/ \E edgeData \in StoreEdges : DoAddEdge(edgeData)
       \/ \E k \in StoreIds : DoGetNodeId(k[1], k[2])
       \/ \E types \in FilterTypes : DoFilterByNodeType(types)
    /\ UNCHANGED <<stale, walk, watcher, ext>>

SpecStore == Init /\ [][NextStore]_vars

----------------------------------------------------------------------------
(* Builds over files with several import records *)

ImportEntries ==
    { Import(SourceB, NameBar), Import(SourceB, Star), Import(PathB, NameFoo) }

\* the import lists of at most MaxImports records
ImportSeqs == UNION {[1..k -> ImportEntries] : k \in 0..MaxImports}

ImportRecords ==
    {FileRecord(PathA, <<>>, imports, <<>>) : imports \in ImportSeqs}
        \cup {RecB1, FileRecord(PathBts, <<>>, <<>>, <<>>)}

NextImports ==
    /\ \E X \in NextMaps(filesMap, ImportRecords, MaxFiles) : DoBuildGraph(X)
    /\ UNCHANGED <<stale, walk, watcher, ext>>

SpecImports == Init /\ [][NextImports]_vars

----------------------------------------------------------------------------
(* Properties *)

Range(s) == {s[i] : i \in 1..Len(s)}

\* the last call was a buildGraph that returned a payload
Built == ret.op = "buildGraph" /\ ~ret.threw

NodeIds(nodes) == {nodes[i].id : i \in 1..Len(nodes)}

Known(p) == \E i \in 1..Len(filesMap) : filesMap[i].path = p

\* the ids of the file nodes of the payload for a path
FileNodeIds(p) ==
    {n.id : n \in {m \in Range(PayloadNodes) : m.type = "file" /\ m.path = p}}

\* the function nodes of the payload under a contains edge from the file's node
FunctionNodesOf(file) ==
    {n \in Range(PayloadNodes) :
        /\ n.type = "function"
        /\ \E e \in Range(PayloadEdges) :
              e.type = "contains" /\ e.source \in FileNodeIds(file.path) /\ e.target = n.id}

DistinctFunctions(file) ==
    \A i, j \in 1..Len(file.functions) :
        i # j => <<file.functions[i].name, file.functions[i].line>>
                     # <<file.functions[j].name, file.functions[j].line>>

\* C1: after every build, a file record whose function entries have k
\* pairwise distinct (name, start line) pairs has exactly k function nodes
\* in the payload that are targets of contains edges from the file's node.
C1_FunctionNodePerEntry ==
    Built =>
      \A file \in Range(filesMap) :
          ("functions" \in DOMAIN file /\ DistinctFunctions(file))
              => Cardinality(FunctionNodesOf(file)) = Len(file.functions)

\* C2: in every payload returned by buildGraph, the source and the target of
\* every edge are ids of nodes of that payload.
C2_EdgeEndpointsAreNodes ==
    Built =>
      \A e \in Range(PayloadEdges) :
          e.source \in NodeIds(PayloadNodes) /\ e.target \in NodeIds(PayloadNodes)

\* C3: buildGraph never throws, whatever properties a file record lacks.
C3_BuildNeverThrows == ret.op = "buildGraph" => ~ret.threw

\* the paths of the file nodes that the file's imports edges point to
ImportTargets(file) ==
    {n.path : n \in {m \in Range(PayloadNodes) :
        /\ m.type = "file"
        /\ \E e \in Range(PayloadEdges) :
              e.type = "imports" /\ e.source \in FileNodeIds(file.path) /\ e.target = m.id}}

ExtCandidates(source) == {source \o Extensions[i] : i \in 1..Len(Extensions)}

IndexCandidates(source) ==
    {PathJoin(source, IndexName \o Extensions[i]) : i \in 1..Len(Extensions)}

StagedCandidates(source) ==
    {source} \cup ExtCandidates(source) \cup IndexCandidates(source)

\* every import record of the file has this source
OnlySource(file, source) ==
    "imports" \in DOMAIN file /\ file.imports # <<>>
        /\ \A k \in 1..Len(file.imports) : file.imports[k].source = source

ImportSources(file) ==
    IF "imports" \in DOMAIN file
    THEN {file.imports[k].source : k \in 1..Len(file.imports)} ELSE {}

\* C4: when the import source is not itself a known file and source+ext is a
\* known file for some supported extension, the imports edge goes to such a
\* file, never to a file source/index.<ext>.
C4_ExtensionBeforeIndex ==
    Built =>
      \A file \in Range(filesMap) : \A source \in ImportSources(file) :
          (/\ OnlySource(file, source)
           /\ ~Known(source)
           /\ \E p \in ExtCandidates(source) : Known(p))
              => /\ ImportTargets(file) # {}
                 /\ ImportTargets(file) \subseteq ExtCandidates(source)

\* C5: when an exact, extension-append or index-file candidate of the import
\* source is a known file, the imports edge goes to one of these candidates
\* and not to a file that only contains the source; /w/a.js importing /w/b,
\* with /w/b.js and /w/bb/b.js known, gets its imports edge to /w/b.js, in
\* every order of the map.
C5_FuzzyOnlyAsLastResort ==
    Built =>
      \A file \in Range(filesMap) : \A source \in ImportSources(file) :
          /\ (/\ OnlySource(file, source)
              /\ \E p \in StagedCandidates(source) : Known(p))
                 => /\ ImportTargets(file) # {}
                    /\ ImportTargets(file) \subseteq StagedCandidates(source)
          /\ (/\ OnlySource(file, source)
              /\ file.path = PathA /\ source = SourceB
              /\ Known(PathB) /\ Known(PathSub))
                 => ImportTargets(file) = {PathB}

IndexOfPath(p) == CHOOSE i \in 1..Len(filesMap) : filesMap[i].path = p

\* /w/bb/b.js, which contains the source /w/b, comes before /w/b.js in the map
C5_Witness ==
    /\ Built
    /\ Known(PathA) /\ Known(PathB) /\ Known(PathSub)
    /\ IndexOfPath(PathSub) < IndexOfPath(PathB)
    /\ OnlySource(filesMap[IndexOfPath(PathA)], SourceB)
    /\ ImportTargets(filesMap[IndexOfPath(PathA)]) = {PathB}

\* a bare module specifier: neither absolute nor relative
Bare(source) == source # <<>> /\ source[1] \notin {"/", "."}

\* C6: an import of a bare module specifier that is no known file, with and
\* without an extension or an /index.<ext> appended, gives no imports edge.
C6_ExternalImportNoEdge ==
    Built =>
      \A file \in Range(filesMap) : \A source \in ImportSources(file) :
          (/\ OnlySource(file, source)
           /\ Bare(source)
           /\ \A p \in StagedCandidates(source) : ~Known(p))
              => ImportTargets(file) = {}

\* C7: the payload the caller holds keeps the nodes and edges it had when it
\* was returned, and its stats stay the counts of its nodes and edges.
C7_PayloadIsSnapshot ==
    payload.held =>
        /\ PayloadNodes = snapshot.nodes
        /\ PayloadEdges = snapshot.edges
        /\ payload.stats.totalNodes = Len(PayloadNodes)
        /\ payload.stats.totalEdges = Len(PayloadEdges)

\* the builder right after construction
NewBuilder ==
    [nodes |-> <<>>, edges |-> <<>>, nodeIdCounter |-> 0, nodeMap |-> <<>>,
     threw |-> FALSE, log |-> <<>>]

\* C8: whatever the builder did before, buildGraph(X) returns the nodes, edges,
\* ids and stats that buildGraph(X) returns on a new builder, and throws
\* exactly when it throws there.
C8_BuildDependsOnInputOnly ==
    ret.op = "buildGraph" =>
        LET fresh == BuildGraph(NewBuilder, filesMap, workspaceFolder) IN
        /\ ret.threw = fresh.threw
        /\ ~ret.threw =>
              /\ PayloadNodes = fresh.nodes
              /\ PayloadEdges = fresh.edges
              /\ payload.stats = GetStats(fresh.nodes, fresh.edges)

\* a payload with nodes and edges, returned by the build after an aborted build
C8_Witness ==
    /\ Built
    /\ aborted
    /\ Len(PayloadNodes) > 1
    /\ Len(PayloadEdges) > 0

\* C9: between two resets, all getNodeId calls with the same (type, key)
\* return the same id.
C9_StableIds ==
    \A i, j \in 1..Len(idLog) :
        idLog[i].key = idLog[j].key => idLog[i].id = idLog[j].id

NoDuplicateEdges(edges) ==
    \A i, j \in 1..Len(edges) :
        i # j => <<edges[i].source, edges[i].target, edges[i].type>>
                     # <<edges[j].source, edges[j].target, edges[j].type>>

\* C10: no two edges of the builder, and no two edges of a payload, have the
\* same (source, target, type).
C10_NoDuplicateEdges ==
    /\ NoDuplicateEdges(heap[edgesRef])
    /\ payload.held => NoDuplicateEdges(PayloadEdges)

\* addEdge was called with the (source, target, type) of an edge of the last
\* build, and the edges are still those of the build
C10_Witness ==
    /\ ret.op = "addEdge"
    /\ payload.held
    /\ edgesRef = payload.edges
    /\ heap[edgesRef] = snapshot.edges
    /\ \E e \in Range(heap[edgesRef]) :
          <<e.source, e.target, e.type>>
              = <<ret.arg.source, ret.arg.target, ret.arg.type>>

----------------------------------------------------------------------------
(* Builds over one file with several functions and calls *)

NameBaz == <<"b", "a", "z">>

FunctionLists ==
    { <<>>,
      <<Func(NameFoo, 1, 2)>>,
      <<Func(NameFoo, 1, 2), Func(NameBar, 3, 4)>>,
      <<Func(NameFoo, 1, 2), Func(NameFoo, 1, 2)>>,
      <<Func(NameFoo, 1, 2), Func(NameFoo, 3, 4)>>,
      <<Func(NameFoo, 0, 4), Func(NameBar, 1, 2)>> }

\* no call, one call on any line up to MaxLine, or two calls
CallLists ==
    {<<>>}
      \cup {<<Call(name, line)>> : name \in {NameFoo, NameBar, NameBaz}, line \in 0..MaxLine}
      \cup { <<Call(NameFoo, 1), Call(NameFoo, 1)>>, <<Call(NameBaz, 2), Call(NameBar, 3)>> }

CallRecords ==
    {FileRecord(PathB, functions, <<>>, calls) :
        functions \in FunctionLists, calls \in CallLists}

NextCalls ==
    /\ \E X \in NextMaps(filesMap, CallRecords, MaxFiles) : DoBuildGraph(X)
    /\ UNCHANGED <<stale, walk, watcher, ext>>

SpecCalls == Init /\ [][NextCalls]_vars

----------------------------------------------------------------------------
(* Builds over files in folders, inside and outside the workspace folder *)

FolderS == <<"/", "w", "/", "s">>                                     \* /w/s
PathInS == <<"/", "w", "/", "s", "/", "c", ".", "j", "s">>            \* /w/s/c.js
PathInS2 == <<"/", "w", "/", "s", "/", "g", ".", "j", "s">>           \* /w/s/g.js
PathInT == <<"/", "w", "/", "s", "/", "t", "/", "d", ".", "j", "s">>  \* /w/s/t/d.js
PathOutside == <<"/", "x", "/", "e", ".", "j", "s">>                  \* /x/e.js
PathAtSlash == <<"/", "f", ".", "j", "s">>                            \* /f.js

\* workspaceFolders?.[0]?.uri.fsPath: /w, /w/s, or undefined
FolderWorkspaces == {WorkspaceRoot, FolderS, <<>>}

FolderRecords ==
    {FileRecord(path, <<>>, <<>>, <<>>) :
        path \in {PathA, PathInS, PathInS2, PathInT, PathOutside, PathAtSlash}}

InitFolders == workspaceFolder \in FolderWorkspaces /\ InitBuilder

NextFolders ==
    /\ \E X \in NextMaps(filesMap, FolderRecords, MaxFiles) : DoBuildGraph(X)
    /\ UNCHANGED <<stale, walk, watcher, ext>>

SpecFolders == InitFolders /\ [][NextFolders]_vars

----------------------------------------------------------------------------
(* The files.forEach of buildFolderNodes, one test of the while loop at a time *)

PathRelative == <<"x", "/", "y", "/", "a", ".", "j", "s">>     \* x/y/a.js
PathBare == <<"a", ".", "j", "s">>                             \* a.js

WalkPaths ==
    {PathA, PathInS, PathInT, PathOutside, PathAtSlash, PathRelative, PathBare}

\* the while loop of the file being walked has ended
WalkDone ==
    walk.active
        /\ ~(walk.currentPath # workspaceFolder
                /\ walk.currentPath # Dirname(walk.currentPath))

\* the callback of files.forEach starts on a file:
\* let currentPath = path.dirname(file.path)
WalkBegin(filePath) ==
    /\ workspaceFolder # <<>>
    /\ ~walk.active \/ WalkDone
    /\ (IF walk.active THEN walk.files ELSE 0) < MaxFiles
    /\ walk' = [active      |-> TRUE,
                path        |-> filePath,
                currentPath |-> Dirname(filePath),
                steps       |-> 0,
                folders     |-> IF walk.active THEN walk.folders ELSE {},
                files       |-> IF walk.active THEN walk.files + 1 ELSE 1]
    /\ UNCHANGED <<builderVars, stale, watcher, ext>>

\* one round of the loop without the test against the path's own dirname
WalkIterateUnguarded ==
    /\ walk.active
    /\ walk.currentPath # workspaceFolder
    /\ walk' = [walk EXCEPT !.folders = @ \cup {walk.currentPath},
                            !.currentPath = Dirname(@),
                            !.steps = @ + 1]
    /\ UNCHANGED <<builderVars, stale, watcher, ext>>

\* one round of the while loop: folders.add(currentPath);
\* currentPath = path.dirname(currentPath)
WalkIterate ==
    /\ walk.active
    /\ walk.currentPath # workspaceFolder
    /\ walk.currentPath # Dirname(walk.currentPath)
    /\ walk' = [walk EXCEPT !.folders = @ \cup {walk.currentPath},
                            !.currentPath = Dirname(@),
                            !.steps = @ + 1]
    /\ UNCHANGED <<builderVars, stale, watcher, ext>>

\* files.forEach returns after the last file
WalkEnd ==
    /\ WalkDone
    /\ walk' = NoWalk
    /\ UNCHANGED <<builderVars, stale, watcher, ext>>

NextWalk ==
    \/ \E filePath \in WalkPaths : WalkBegin(filePath)
    \/ WalkIterate
    \/ WalkEnd

SpecWalk == InitFolders /\ [][NextWalk]_vars

----------------------------------------------------------------------------
(* Builds followed by filterByNodeType, for every set of node types *)

RecInS ==
    FileRecord(PathInS, <<Func(NameFoo, 1, 2), Func(NameBar, 3, 4)>>, <<>>,
               <<Call(NameBar, 1)>>)
RecAImportsS ==
    FileRecord(PathA, <<Func(NameFoo, 1, 2)>>, <<Import(PathInS, NameFoo)>>, <<>>)

QueryRecords == {RecInS, RecAImportsS, FileRecord(PathInT, <<>>, <<>>, <<>>)}

NodeTypeSets == SUBSET {"folder", "file", "function"}

\* buildGraph, noting whether the builder held nodes and edges
DoRebuild(X) ==
    /\ DoBuildGraph(X)
    /\ stale' = (heap[nodesRef] # <<>> /\ heap[edgesRef] # <<>>)
    /\ UNCHANGED <<walk, watcher, ext>>

NextQuery ==
    \/ \E X \in NextMaps(filesMap, QueryRecords, MaxFiles) : DoRebuild(X)
    \/ \E types \in NodeTypeSets : DoFilterByNodeType(types) /\ UNCHANGED <<stale, walk, watcher, ext>>

SpecQuery == Init /\ [][NextQuery]_vars

----------------------------------------------------------------------------
(* Builds over the two files src/a.js and src/b.js of the workspace /w *)

FolderSrc == <<"/", "w", "/", "s", "r", "c">>                              \* /w/src
PathSrcA == FolderSrc \o <<"/", "a", ".", "j", "s">>                       \* /w/src/a.js
PathSrcB == FolderSrc \o <<"/", "b", ".", "j", "s">>                       \* /w/src/b.js
SourceSrcB == FolderSrc \o <<"/", "b">>                      \* './b' of a.js, resolved

RecSrcA ==
    FileRecord(PathSrcA, <<Func(NameFoo, 0, 2)>>, <<Import(SourceSrcB, NameBar)>>,
               <<Call(NameBar, 1)>>)
RecSrcB == FileRecord(PathSrcB, <<Func(NameBar, 0, 1)>>, <<>>, <<>>)

ScenarioRecords == {RecSrcA, RecSrcB} \cup FolderRecords

NextScenario ==
    /\ \E X \in NextMaps(filesMap, ScenarioRecords, MaxFiles) : DoBuildGraph(X)
    /\ UNCHANGED <<stale, walk, watcher, ext>>

SpecScenario == Init /\ [][NextScenario]_vars

----------------------------------------------------------------------------
(* The file watcher *)

ExcludedDirs ==
    { <<"n", "o", "d", "e", "_", "m", "o", "d", "u", "l", "e", "s">>,
      <<"d", "i", "s", "t">>, <<"b", "u", "i", "l", "d">>, <<".", "g", "i", "t">>,
      <<"v", "e", "n", "v">>,
      <<"_", "_", "p", "y", "c", "a", "c", "h", "e", "_", "_">> }

\* path.relative(ws, p) for a path under ws
RelativeTo(ws, p) ==
    IF Len(p) > Len(ws) + 1 /\ SubSeq(p, 1, Len(ws) + 1) = ws \o <<"/">>
    THEN SubSeq(p, Len(ws) + 2, Len(p))
    ELSE p

\* the segments of a path
RECURSIVE SplitPath(_)
SplitPath(p) ==
    IF LastSlash(p) = 0 THEN <<p>>
    ELSE Append(SplitPath(SubSeq(p, 1, LastSlash(p) - 1)), Basename(p))

\* shouldExclude(filePath): a pattern **/<dir>/** matches the relative path
ShouldExclude(ws, filePath) ==
    /\ ws # <<>>
    /\ LET segs == SplitPath(RelativeTo(ws, filePath)) IN
       \E i \in 1..(Len(segs) - 1) : segs[i] \in ExcludedDirs

\* shouldInclude(filePath): a pattern **/*.<ext> matches the relative path
ShouldInclude(ws, filePath) ==
    /\ ws # <<>>
    /\ \E i \in 1..Len(Extensions) : EndsWith(Basename(filePath), Extensions[i])

\* Set.prototype.add, the Set kept in insertion order
SetAdd(set, x) == IF \E i \in 1..Len(set) : set[i] = x THEN set ELSE Append(set, x)

\* this.pendingChanges.add(filePath)
AddPending(w, filePath) ==
    [w EXCEPT !.pendingChanges = SetAdd(@, filePath),
              !.accepted = @ \cup {filePath},
              !.quiet = FALSE]

\* debounceChanges that leaves a running timer alone
DebounceChangesNoClear(w) ==
    IF w.debounceTimer THEN w ELSE [w EXCEPT !.debounceTimer = TRUE, !.quiet = TRUE]

\* debounceChanges(): clearTimeout, then setTimeout
DebounceChanges(w) == [w EXCEPT !.debounceTimer = TRUE, !.quiet = TRUE]

\* notifyChanges()
NotifyChanges(w) ==
    IF w.pendingChanges = <<>>
    THEN [w EXCEPT !.last = [op |-> "notifyChanges"]]
    ELSE [w EXCEPT !.pendingChanges = <<>>,
                   !.accepted = {},
                   !.last = [op |-> "onChange", batch |-> w.pendingChanges,
                             accepted |-> w.accepted, quiet |-> w.quiet,
                             paused |-> w.isPaused]]

\* handleFileChange(filePath, changeType), called by onDidCreate,
\* onDidChange and onDidDelete
HandleFileChange(filePath, changeType) ==
    /\ watcher' =
          IF ShouldExclude(workspaceFolder, filePath)
                \/ ~ShouldInclude(workspaceFolder, filePath)
          THEN [watcher EXCEPT !.last = [op |-> "handleFileChange", path |-> filePath,
                                         taken |-> FALSE]]
          ELSE [DebounceChanges(AddPending(watcher, filePath))
                   EXCEPT !.last = [op |-> "handleFileChange", path |-> filePath,
                                    taken |-> TRUE]]
    /\ UNCHANGED <<builderVars, stale, walk>>

\* the callback of setTimeout in debounceChanges
TimerExpires ==
    /\ watcher.debounceTimer
    /\ watcher' = NotifyChanges([watcher EXCEPT !.debounceTimer = FALSE])
    /\ UNCHANGED <<builderVars, stale, walk>>

\* triggerChange(filePaths)
TriggerChange(filePaths) ==
    /\ watcher' = [DebounceChanges(FoldSeq(AddPending, watcher, filePaths))
                      EXCEPT !.last = [op |-> "triggerChange", paths |-> filePaths]]
    /\ UNCHANGED <<builderVars, stale, walk>>

\* pause()
Pause ==
    /\ watcher' = [watcher EXCEPT !.isPaused = TRUE, !.last = [op |-> "pause"]]
    /\ UNCHANGED <<builderVars, stale, walk>>

\* resume()
Resume ==
    /\ watcher' =
          [(IF watcher.pendingChanges # <<>>
            THEN DebounceChanges([watcher EXCEPT !.isPaused = FALSE])
            ELSE [watcher EXCEPT !.isPaused = FALSE])
              EXCEPT !.last = [op |-> "resume"]]
    /\ UNCHANGED <<builderVars, stale, walk>>

\* clearPendingChanges()
ClearPendingChanges ==
    /\ watcher' = [watcher EXCEPT !.pendingChanges = <<>>, !.debounceTimer = FALSE,
                                  !.cleared = TRUE,
                                  !.last = [op |-> "clearPendingChanges"]]
    /\ UNCHANGED <<builderVars, stale, walk>>

PathModule ==                                    \* /w/node_modules/m.js
    WorkspaceRoot \o <<"/">>
        \o <<"n", "o", "d", "e", "_", "m", "o", "d", "u", "l", "e", "s">>
        \o <<"/", "m", ".", "j", "s">>
PathText == WorkspaceRoot \o <<"/", "n", ".", "t", "x", "t">>      \* /w/n.txt

WatchedPaths == {PathA, PathInS, PathModule, PathText}

ChangeTypes == {"created", "modified", "deleted"}

TriggerLists == { <<>>, <<PathA, PathInS, PathA>> }

NextWatcher ==
    \/ \E filePath \in WatchedPaths : \E changeType \in ChangeTypes :
          HandleFileChange(filePath, changeType) /\ UNCHANGED ext
    \/ TimerExpires /\ UNCHANGED ext
    \/ \E filePaths \in TriggerLists : TriggerChange(filePaths) /\ UNCHANGED ext
    \/ Pause /\ UNCHANGED ext
    \/ Resume /\ UNCHANGED ext
    \/ ClearPendingChanges /\ UNCHANGED ext

SpecWatcher == Init /\ [][NextWatcher]_vars

----------------------------------------------------------------------------
(* The extension: the watcher's callback, handleFileChanges, and the scans  *)
(* of showDependencyGraph and refreshGraph, one await at a time              *)

SourcePaths == <<PathSrcA, PathSrcB>>

\* parser.parse(filePath, content, language) of the file's content
ParseOf(filePath) == IF filePath = PathSrcA THEN RecSrcA ELSE RecSrcB

HasRecord(files, filePath) == \E i \in 1..Len(files) : files[i].path = filePath

\* scanner.scanFile(filePath): openTextDocument rejects for a file that is
\* gone unless its document is still open in an editor
ScanFile(x, filePath, open) ==
    IF filePath \in x.disk \/ open
    THEN [threw |-> FALSE, files |-> MapSet(x.files, ParseOf(filePath))]
    ELSE [threw |-> TRUE, files |-> x.files]

\* postMessage({command, data: graphData}) in extension state x.  partial is
\* history: a scan of the workspace had cleared the map and was still
\* refilling it, and a file of the workspace had no record in the map built
Message(command, b, x) ==
    [command |-> command, nodes |-> b.nodes, edges |-> b.edges,
     partial |-> /\ x.scan.pc # "idle"
                 /\ \E p \in x.disk : ~HasRecord(x.files, p)]

\* vscode.workspace.findFiles(...) and the filter of scanWorkspace
FindFiles(disk) == SelectSeq(SourcePaths, LAMBDA p : p \in disk)

\* a file is created, saved or deleted while no handleFileChanges is running
CreateFile(filePath) ==
    /\ filePath \notin ext.disk
    /\ ext.handler.pc = "idle"
    /\ ext.events < MaxEvents
    /\ HandleFileChange(filePath, "created")
    /\ ext' = [ext EXCEPT !.disk = @ \cup {filePath}, !.events = @ + 1]

ModifyFile(filePath) ==
    /\ filePath \in ext.disk
    /\ ext.handler.pc = "idle"
    /\ ext.events < MaxEvents
    /\ HandleFileChange(filePath, "modified")
    /\ ext' = [ext EXCEPT !.events = @ + 1]

DeleteFile(filePath) ==
    /\ filePath \in ext.disk
    /\ ext.handler.pc = "idle"
    /\ ext.events < MaxEvents
    /\ HandleFileChange(filePath, "deleted")
    /\ ext' = [ext EXCEPT !.disk = @ \ {filePath}, !.events = @ + 1]

\* the debounce timer fires; the callback of initializeFileWatcher calls
\* handleFileChanges(changedFiles) when the panel is open, which runs to
\* its first await
WatcherFires ==
    /\ TimerExpires
    /\ ext' = IF watcher.pendingChanges # <<>> /\ ext.panel
              THEN [ext EXCEPT !.handler = [pc |-> "scanning",
                                            todo |-> watcher.pendingChanges,
                                            batch |-> watcher.pendingChanges]]
              ELSE ext

\* handleFileChanges: one await scanner.scanFile(filePath) resolves or
\* rejects; after the last one, buildGraph and postMessage
HandleFileChangesStep(open) ==
    /\ ext.handler.pc = "scanning"
    /\ LET r == ScanFile(ext, Head(ext.handler.todo), open)
           rest == Tail(ext.handler.todo)
           end == [ext EXCEPT !.files = r.files, !.handler = Idle]
           b == BuildGraph(Cur, r.files, workspaceFolder)
       IN  IF r.threw
           THEN /\ ext' = [ext EXCEPT !.handler = Idle,
                                      !.done = [op |-> "handled",
                                                batch |-> ext.handler.batch,
                                                posted |-> FALSE,
                                                disk |-> ext.disk,
                                                nodes |-> <<>>]]
                /\ UNCHANGED builderVars
           ELSE IF rest # <<>>
           THEN /\ ext' = [ext EXCEPT !.files = r.files, !.handler.todo = rest]
                /\ UNCHANGED builderVars
           ELSE /\ DoBuildGraph(r.files)
                /\ ext' = [end EXCEPT !.posted = Message("updateGraph", b, end),
                                      !.done = [op |-> "handled",
                                                batch |-> ext.handler.batch,
                                                posted |-> TRUE,
                                                disk |-> ext.disk,
                                                nodes |-> b.nodes]]
    /\ UNCHANGED <<stale, walk, watcher>>

\* showDependencyGraph: the panel is created, then scanWorkspace runs to
\* its first await: clear() and findFiles
ShowDependencyGraph ==
    /\ ~ext.panel
    /\ ext' = [ext EXCEPT !.panel = TRUE, !.files = <<>>,
                          !.scan = [pc |-> "finding", todo |-> <<>>]]
    /\ UNCHANGED <<builderVars, stale, walk, watcher>>

\* refreshGraph(panel): scanner.clear(), then scanWorkspace to its first await
RefreshGraph ==
    /\ ext.panel
    /\ ext.scan.pc = "idle"
    /\ ext' = [ext EXCEPT !.files = <<>>, !.scan = [pc |-> "finding", todo |-> <<>>]]
    /\ UNCHANGED <<builderVars, stale, walk, watcher>>

\* scanWorkspace: findFiles resolves; with no file the scan ends here,
\* and its caller builds and posts renderGraph
ScanWorkspaceFind ==
    /\ ext.scan.pc = "finding"
    /\ LET found == FindFiles(ext.disk)
           end == [ext EXCEPT !.scan = Idle]
           b == BuildGraph(Cur, ext.files, workspaceFolder)
       IN  IF found # <<>>
           THEN /\ ext' = [ext EXCEPT !.scan = [pc |-> "scanning", todo |-> found]]
                /\ UNCHANGED builderVars
           ELSE /\ DoBuildGraph(ext.files)
                /\ ext' = [end EXCEPT !.posted = Message("renderGraph", b, end)]
    /\ UNCHANGED <<stale, walk, watcher>>

\* scanWorkspace: one await this.scanFile(file.fsPath) in its try/catch;
\* after the last one the caller builds and posts renderGraph
ScanWorkspaceStep(open) ==
    /\ ext.scan.pc = "scanning"
    /\ LET r == ScanFile(ext, Head(ext.scan.todo), open)
           rest == Tail(ext.scan.todo)
           end == [ext EXCEPT !.files = r.files, !.scan = Idle]
           b == BuildGraph(Cur, r.files, workspaceFolder)
       IN  IF rest # <<>>
           THEN /\ ext' = [ext EXCEPT !.files = r.files, !.scan.todo = rest]
                /\ UNCHANGED builderVars
           ELSE /\ DoBuildGraph(r.files)
                /\ ext' = [end EXCEPT !.posted = Message("renderGraph", b, end)]
    /\ UNCHANGED <<stale, walk, watcher>>

NextExtension ==
    \/ \E filePath \in Range(SourcePaths) : CreateFile(filePath)
    \/ \E filePath \in Range(SourcePaths) : ModifyFile(filePath)
    \/ \E filePath \in Range(SourcePaths) : DeleteFile(filePath)
    \/ WatcherFires
    \/ \E open \in BOOLEAN : HandleFileChangesStep(open)
    \/ ShowDependencyGraph
    \/ RefreshGraph
    \/ ScanWorkspaceFind
    \/ \E open \in BOOLEAN : ScanWorkspaceStep(open)

SpecExtension == Init /\ [][NextExtension]_vars

----------------------------------------------------------------------------
(* Properties, continued *)

\* the import records of the file that resolve to the path p, by position
ImportsTo(file, p) ==
    {k \in 1..Len(file.imports) :
        ResolvedPath(file.imports[k].source, FilePaths(filesMap)) = p}

\* the positions in the payload of the imports edges from the file to p
ImportEdges(file, p) ==
    {i \in 1..Len(PayloadEdges) :
        /\ PayloadEdges[i].type = "imports"
        /\ PayloadEdges[i].source \in FileNodeIds(file.path)
        /\ PayloadEdges[i].target \in FileNodeIds(p)}

FirstOf(S) == CHOOSE k \in S : \A j \in S : k <= j

\* C11: when two or more import records of a file resolve to the same file,
\* the payload has exactly one imports edge between the two file nodes, and
\* its label is the imported name of the first of these records, or the
\* empty string when that name is "*".
C11_OneImportsEdgeFirstLabel ==
    Built =>
      \A file \in Range(filesMap) : \A p \in Range(FilePaths(filesMap)) :
          Cardinality(ImportsTo(file, p)) >= 2 =>
              /\ Cardinality(ImportEdges(file, p)) = 1
              /\ \A i \in ImportEdges(file, p) :
                    LET first == file.imports[FirstOf(ImportsTo(file, p))].imported
                    IN  PayloadEdges[i].label = IF first = Star THEN <<>> ELSE first

\* a file imports one target twice, "*" first and a name second
C11_Witness ==
    /\ Built
    /\ \E file \in Range(filesMap) :
          /\ Len(file.imports) = 2
          /\ file.imports[1].imported = Star
          /\ file.imports[2].imported # Star
          /\ ImportsTo(file, PathB) = {1, 2}
          /\ Cardinality(ImportEdges(file, PathB)) = 1

\* the (type, canonical key) of a node of a payload
CanonicalKey(n) ==
    IF n.type = "function" THEN <<n.type, n.path, n.label, n.line>>
    ELSE <<n.type, n.path>>

\* C12: in every payload returned by buildGraph, no two nodes have the same
\* (type, canonical key): directory path for a folder, file path for a file,
\* (file path, name, start line) for a function.
C12_UniqueCanonicalKeys ==
    Built =>
      \A i, j \in 1..Len(PayloadNodes) :
          i # j => CanonicalKey(PayloadNodes[i]) # CanonicalKey(PayloadNodes[j])

\* a file record lists the same (name, start line) twice and the payload has
\* its function node
C12_Witness ==
    /\ Built
    /\ \E file \in Range(filesMap) :
          /\ ~DistinctFunctions(file)
          /\ \E n \in Range(PayloadNodes) :
                n.type = "function" /\ n.path = file.path

\* the positions in the payload of the contains edges into the node id
ContainsInto(id) ==
    {i \in 1..Len(PayloadEdges) :
        PayloadEdges[i].type = "contains" /\ PayloadEdges[i].target = id}

\* C13: in every payload returned by buildGraph, every function node has
\* exactly one incoming contains edge, and its source is the file node of the
\* file record that lists the function.
C13_FunctionHasOneFileParent ==
    Built =>
      \A n \in Range(PayloadNodes) :
          n.type = "function" =>
              /\ Cardinality(ContainsInto(n.id)) = 1
              /\ \A i \in ContainsInto(n.id) :
                    /\ PayloadEdges[i].source \in FileNodeIds(n.path)
                    /\ \E file \in Range(filesMap) :
                          /\ file.path = n.path
                          /\ \E k \in 1..Len(file.functions) :
                                /\ file.functions[k].name = n.label
                                /\ file.functions[k].line = n.line

\* the payload has a function node of a file that lists two functions
C13_Witness ==
    /\ Built
    /\ \E file \in Range(filesMap) :
          /\ Len(file.functions) >= 2
          /\ \E n \in Range(PayloadNodes) :
                /\ n.type = "function" /\ n.path = file.path
                /\ ContainsInto(n.id) # {}

\* the identifier for which the build asked getNodeId for the function
FunctionKey(file, func) == NodeKey("function", FuncKey(file, func))

\* the keys for which getNodeId returned the id during the build
KeysOf(id) == {idLog[i].key : i \in {j \in 1..Len(idLog) : idLog[j].id = id}}

CallsEdges == {e \in Range(PayloadEdges) : e.type = "calls"}

\* the call records of the file that name a function of the file
NamedCalls(file) ==
    {k \in 1..Len(file.calls) :
        \E t \in 1..Len(file.functions) : file.functions[t].name = file.calls[k].name}

\* C17: a function of a file record is the source of a calls edge exactly
\* when a call record naming a function of the file has its line within
\* line..endLine of the function, both ends included; so a call on line or on
\* endLine is attributed, and a call on line - 1 or endLine + 1 is not.
C17_InclusiveCallRange ==
    Built =>
      \A file \in Range(filesMap) : \A i \in 1..Len(file.functions) :
          LET func == file.functions[i] IN
          (\E e \in CallsEdges : FunctionKey(file, func) \in KeysOf(e.source))
              <=> (\E k \in NamedCalls(file) :
                      file.calls[k].line \in func.line..func.endLine)

\* the file's only call is on the line or endLine of its only function
\* and the payload has the calls edge
C17_Witness ==
    /\ Built
    /\ \E file \in Range(filesMap) :
          /\ Len(file.functions) = 1 /\ Len(file.calls) = 1
          /\ file.functions[1].line < file.functions[1].endLine
          /\ file.calls[1].line = file.functions[1].endLine
          /\ \E e \in CallsEdges :
                FunctionKey(file, file.functions[1]) \in KeysOf(e.source)

\* C18: every calls edge of a payload goes from a function of a file record
\* to a function of the same record whose name is the name of a call record
\* of that file; a file none of whose calls names one of its functions has
\* no calls edge.
C18_CallsEdgesNameSameFileFunctions ==
    Built =>
      \A e \in CallsEdges :
          \E file \in Range(filesMap) :
              /\ \E i \in 1..Len(file.functions) :
                    FunctionKey(file, file.functions[i]) \in KeysOf(e.source)
              /\ \E k \in 1..Len(file.calls) : \E t \in 1..Len(file.functions) :
                    /\ file.functions[t].name = file.calls[k].name
                    /\ FunctionKey(file, file.functions[t]) \in KeysOf(e.target)

\* a call inside a function names no function of the file, and the payload
\* has no calls edge
C18_Witness ==
    /\ Built
    /\ CallsEdges = {}
    /\ \E file \in Range(filesMap) :
          /\ file.calls # <<>> /\ NamedCalls(file) = {}
          /\ \E i \in 1..Len(file.functions) : \E k \in 1..Len(file.calls) :
                file.calls[k].line \in file.functions[i].line..file.functions[i].endLine

\* the folder nodes of the payload for a directory path, by position
FolderNodesAt(d) ==
    {i \in 1..Len(PayloadNodes) :
        PayloadNodes[i].type = "folder" /\ PayloadNodes[i].path = d}

\* a directory that is its own parent: '/' or '.'
OwnParent(d) == Dirname(d) = d

\* the file node has exactly one incoming contains edge, from the folder
\* node of its directory
LinkedToParent(n) ==
    /\ Cardinality(ContainsInto(n.id)) = 1
    /\ \A i \in ContainsInto(n.id) :
          \E j \in FolderNodesAt(Dirname(n.path)) :
              PayloadEdges[i].source = PayloadNodes[j].id

\* C14, as claimed: in every payload, a file node whose directory is the
\* workspace root has no incoming contains edge and every other file node
\* has exactly one, from the folder node of its parent directory.
C14_FileParentLink ==
    Built =>
      \A n \in Range(PayloadNodes) :
          n.type = "file" =>
              IF Dirname(n.path) = workspaceFolder
              THEN ContainsInto(n.id) = {}
              ELSE LinkedToParent(n)

\* C14, amended: a file node has no incoming contains edge when no workspace
\* folder is open or when its directory is the workspace root or a directory
\* that is its own parent; every other file node has exactly one, from the
\* folder node of its parent directory.
C14_FileParentLinkUnlessRoot ==
    Built =>
      \A n \in Range(PayloadNodes) :
          n.type = "file" =>
              IF \/ workspaceFolder = <<>>
                 \/ Dirname(n.path) = workspaceFolder
                 \/ OwnParent(Dirname(n.path))
              THEN ContainsInto(n.id) = {}
              ELSE LinkedToParent(n)

\* with a workspace folder open, the payload has a file node in the
\* filesystem root without a parent and a file node linked to its folder
C14_Witness ==
    /\ Built
    /\ workspaceFolder # <<>>
    /\ \E n, m \in Range(PayloadNodes) :
          /\ n.type = "file" /\ OwnParent(Dirname(n.path)) /\ ContainsInto(n.id) = {}
          /\ m.type = "file" /\ LinkedToParent(m)

\* p starts with the directory d followed by a separator
Under(d, p) == Len(p) > Len(d) + 1 /\ SubSeq(p, 1, Len(d) + 1) = d \o <<"/">>

\* the directories strictly between the directory ws and the file path p
DirsBetween(ws, p) ==
    {SubSeq(p, 1, i - 1) : i \in {j \in (Len(ws) + 2)..Len(p) : p[j] = "/"}}

\* C15: with a workspace folder open, every directory strictly between the
\* workspace root and a file under it is a folder node exactly once, however
\* many files share it; no folder node is the workspace root or a directory
\* that is its own parent.
C15_FoldersBetweenRootAndFile ==
    Built =>
      /\ workspaceFolder # <<>> =>
            \A file \in Range(filesMap) :
                Under(workspaceFolder, file.path) =>
                    \A d \in DirsBetween(workspaceFolder, file.path) :
                        Cardinality(FolderNodesAt(d)) = 1
      /\ \A n \in Range(PayloadNodes) :
            n.type = "folder" => n.path # workspaceFolder /\ ~OwnParent(n.path)

\* two files share a directory under the workspace root, a third is two
\* directories below the root, and each directory is one folder node
C15_Witness ==
    /\ Built
    /\ workspaceFolder # <<>>
    /\ \E f, g, h \in Range(filesMap) :
          /\ f.path # g.path
          /\ Under(workspaceFolder, f.path) /\ Under(workspaceFolder, g.path)
          /\ Dirname(f.path) = Dirname(g.path)
          /\ Cardinality(FolderNodesAt(Dirname(f.path))) = 1
          /\ Cardinality(DirsBetween(workspaceFolder, h.path)) = 2
          /\ \A d \in DirsBetween(workspaceFolder, h.path) :
                Cardinality(FolderNodesAt(d)) = 1

\* the number of separators of a path
Depth(p) == Cardinality({i \in 1..Len(p) : p[i] = "/"})

\* C16: for every file path, under the workspace root or not, the ancestry
\* walk has made at most as many rounds as the path has separators, and the
\* directories it added are those the walk as a whole adds; so it ends, also
\* when it comes to the filesystem root without meeting the workspace root.
C16_WalkBoundedByDepth ==
    walk.active =>
        /\ walk.steps <= Depth(walk.path)
        /\ WalkDone =>
              Range(WalkUp(Dirname(walk.path), workspaceFolder, <<>>)) \subseteq walk.folders

\* the walk of a path outside the workspace root has ended at a directory
\* that is its own parent, after at least one round
C16_Witness ==
    /\ WalkDone
    /\ walk.steps >= 1
    /\ ~Under(workspaceFolder, walk.path)
    /\ walk.currentPath # workspaceFolder
    /\ OwnParent(walk.currentPath)

\* C19: buildGraph on an empty map returns no node, no edge and stats that
\* are all zero, also when the builder held nodes and edges before the call.
C19_EmptyMapEmptyPayload ==
    (Built /\ filesMap = <<>>) =>
        /\ PayloadNodes = <<>>
        /\ PayloadEdges = <<>>
        /\ payload.stats =
              [totalNodes |-> 0, totalEdges |-> 0,
               nodesByType |-> [folder |-> 0, file |-> 0, function |-> 0],
               edgesByType |-> [contains |-> 0, imports |-> 0, calls |-> 0]]

\* buildGraph on an empty map has returned, and the builder held nodes and
\* edges when it was called
C19_Witness == Built /\ filesMap = <<>> /\ stale

\* the positions of the members of a sequence that satisfy Test
Positions(s, Test(_)) == {i \in 1..Len(s) : Test(s[i])}

\* C20: filterByNodeType(types) returns exactly the nodes of the builder
\* whose type is in types, exactly the edges of the builder whose source and
\* target are both ids of those nodes, and stats whose totalNodes and
\* totalEdges are the lengths of the two lists.
C20_FilterIsInducedSubgraph ==
    ret.op = "filterByNodeType" =>
        LET v == ret.value
            nodes == heap[nodesRef]
            edges == heap[edgesRef]
            KeptNode(n) == n.type \in ret.types
            KeptEdge(e) == e.source \in NodeIds(v.nodes) /\ e.target \in NodeIds(v.nodes)
        IN  /\ Range(v.nodes) = {n \in Range(nodes) : KeptNode(n)}
            /\ Len(v.nodes) = Cardinality(Positions(nodes, KeptNode))
            /\ Range(v.edges) = {e \in Range(edges) : KeptEdge(e)}
            /\ Len(v.edges) = Cardinality(Positions(edges, KeptEdge))
            /\ v.stats.totalNodes = Len(v.nodes)
            /\ v.stats.totalEdges = Len(v.edges)

\* a filter on file and function nodes kept some edges of the builder and
\* dropped the contains edge of a folder
C20_Witness ==
    /\ ret.op = "filterByNodeType"
    /\ ret.types = {"file", "function"}
    /\ ret.value.edges # <<>>
    /\ \E e \in Range(heap[edgesRef]) :
          /\ e.type = "contains"
          /\ e.target \in NodeIds(ret.value.nodes)
          /\ e.source \notin NodeIds(ret.value.nodes)
          /\ e \notin Range(ret.value.edges)

\* the nodes of the payload of a type with a label
NodesLabelled(type, label) ==
    {n \in Range(PayloadNodes) : n.type = type /\ n.label = label}

\* the (source, target) of the edges of the payload of a type
EdgePairs(type) ==
    {<<e.source, e.target>> : e \in {d \in Range(PayloadEdges) : d.type = type}}

\* C21: for src/a.js (foo on lines 0-2 calling bar, importing bar from ./b)
\* and src/b.js (bar on lines 0-1) the payload has one folder node src, two
\* file nodes, two function nodes, the four contains edges src -> a.js,
\* src -> b.js, a.js -> foo, b.js -> bar, one imports edge a.js -> b.js and
\* no calls edge.
C21_EndToEndScenario ==
    (Built /\ Range(filesMap) = {RecSrcA, RecSrcB}) =>
        \E src, a, b, foo, bar \in Range(PayloadNodes) :
            /\ src.type = "folder" /\ src.path = FolderSrc
            /\ a.type = "file" /\ a.path = PathSrcA
            /\ b.type = "file" /\ b.path = PathSrcB
            /\ foo.type = "function" /\ foo.label = NameFoo /\ foo.path = PathSrcA
            /\ bar.type = "function" /\ bar.label = NameBar /\ bar.path = PathSrcB
            /\ Range(PayloadNodes) = {src, a, b, foo, bar}
            /\ Len(PayloadNodes) = 5
            /\ EdgePairs("contains") = { <<src.id, a.id>>, <<src.id, b.id>>,
                                         <<a.id, foo.id>>, <<b.id, bar.id>> }
            /\ EdgePairs("imports") = { <<a.id, b.id>> }
            /\ EdgePairs("calls") = {}
            /\ Len(PayloadEdges) = 5

\* the scenario was built, with b.js scanned before a.js
C21_Witness ==
    /\ Built
    /\ filesMap = <<RecSrcB, RecSrcA>>
    /\ Len(PayloadNodes) = 5

\* the (function, function) pairs that the calls edges of the payload join:
\* the keys for which the build asked for the edge's source and target ids
CallsEdgeKeys ==
    {k \in (UNION {KeysOf(e.source) : e \in CallsEdges})
                \X (UNION {KeysOf(e.target) : e \in CallsEdges}) :
        \E e \in CallsEdges : k[1] \in KeysOf(e.source) /\ k[2] \in KeysOf(e.target)}

\* C22: a file record yields at most as many calls edges, between different
\* pairs of functions, as it has call records: one call record gives at most
\* one calls edge, also when several functions' line ranges contain its line.
C22_OneEdgePerCallRecord ==
    (Built /\ Len(filesMap) = 1) =>
        Cardinality(CallsEdgeKeys) <= Len(filesMap[1].calls)

AllNodeTypes == {"folder", "file", "function"}

\* C26: right after buildGraph, filterByNodeType(['folder', 'file',
\* 'function']) returns the node list and the edge list of the payload that
\* buildGraph returned.
C26_FilterAllTypesIsPayload ==
    (ret.op = "filterByNodeType" /\ ret.types = AllNodeTypes /\ payload.held) =>
        /\ ret.value.nodes = PayloadNodes
        /\ ret.value.edges = PayloadEdges

\* the function nodes of the payload that a contains edge from the node id
\* points to
ContainedFunctions(id) ==
    {m \in Range(PayloadNodes) :
        /\ m.type = "function"
        /\ \E e \in Range(PayloadEdges) :
              e.type = "contains" /\ e.source = id /\ e.target = m.id}

\* C28: for every file node of a payload whose record has function entries
\* with pairwise distinct (name, start line), functionCount is the number of
\* function nodes under contains edges from the file node.
C28_FunctionCountMatchesNodes ==
    Built =>
      \A n \in Range(PayloadNodes) : \A file \in Range(filesMap) :
          (n.type = "file" /\ file.path = n.path /\ DistinctFunctions(file)) =>
              n.functionCount = Cardinality(ContainedFunctions(n.id))

\* C29: in every payload returned by buildGraph, totalNodes is the length of
\* nodes and the sum of the three counts of nodesByType, and totalEdges is the
\* length of edges and the sum of the three counts of edgesByType.
C29_StatsAddUp ==
    Built =>
        LET st == payload.stats IN
        /\ st.totalNodes = Len(PayloadNodes)
        /\ st.totalNodes = st.nodesByType.folder + st.nodesByType.file
                               + st.nodesByType.function
        /\ st.totalEdges = Len(PayloadEdges)
        /\ st.totalEdges = st.edgesByType.contains + st.edgesByType.imports
                               + st.edgesByType.calls

\* a payload with nodes of the three types and edges of the three types
C29_Witness ==
    /\ Built
    /\ {n.type : n \in Range(PayloadNodes)} = AllNodeTypes
    /\ {e.type : e \in Range(PayloadEdges)} = {"contains", "imports", "calls"}

\* C30: in every payload the node ids are pairwise distinct, and the edge at
\* position i (from 0) has the id edge-i, so the edge ids are pairwise
\* distinct as well.
C30_DistinctIds ==
    Built =>
        /\ \A i, j \in 1..Len(PayloadNodes) :
              i # j => PayloadNodes[i].id # PayloadNodes[j].id
        /\ \A i \in 1..Len(PayloadEdges) :
              PayloadEdges[i].id = <<"e", "d", "g", "e", "-">> \o Digits(i - 1)
        /\ \A i, j \in 1..Len(PayloadEdges) :
              i # j => PayloadEdges[i].id # PayloadEdges[j].id

\* a build that followed other builds returned three files' nodes and at
\* least three edges
C30_Witness ==
    /\ Built
    /\ Len(filesMap) = 3
    /\ Cardinality({n \in Range(PayloadNodes) : n.type = "file"}) = 3
    /\ Len(PayloadEdges) >= 3

NoDuplicates(s) == \A i, j \in 1..Len(s) : i # j => s[i] # s[j]

\* C24: between pause() and resume() the watcher does not invoke onChange.
C24_NoChangeEventsWhilePaused ==
    watcher.last.op = "onChange" => ~watcher.last.paused

\* C27: as long as clearPendingChanges was not called, onChange is invoked
\* only by the timer when no path was accepted since the timer was armed,
\* with a non-empty batch without duplicates that holds exactly the paths
\* accepted since the last invocation, leaving pendingChanges empty; the
\* paths accepted and not yet delivered are exactly the pending ones.
C27_DebouncedBatches ==
    ~watcher.cleared =>
        /\ Range(watcher.pendingChanges) = watcher.accepted
        /\ NoDuplicates(watcher.pendingChanges)
        /\ watcher.pendingChanges # <<>> => watcher.debounceTimer
        /\ watcher.last.op = "onChange" =>
              /\ watcher.last.quiet
              /\ watcher.last.batch # <<>>
              /\ NoDuplicates(watcher.last.batch)
              /\ Range(watcher.last.batch) = watcher.last.accepted
              /\ watcher.pendingChanges = <<>>
              /\ ~watcher.debounceTimer

\* onChange has received a batch of two paths
C27_Witness ==
    /\ ~watcher.cleared
    /\ watcher.last.op = "onChange"
    /\ Len(watcher.last.batch) = 2

\* C23: when the handling of a batch delivered while the panel is open has
\* ended, an updateGraph message was posted, and its graph has no file node
\* for a path of the batch that is no longer in the workspace.
C23_UpdateGraphReflectsBatch ==
    ext.done.op = "handled" =>
        /\ ext.done.posted
        /\ \A p \in Range(ext.done.batch) :
              p \notin ext.done.disk =>
                 ~\E i \in 1..Len(ext.done.nodes) :
                     /\ ext.done.nodes[i].type = "file"
                     /\ ext.done.nodes[i].path = p

\* C25: no message posted carries a graph built from the map of a scan that
\* was still refilling it, with a file of the workspace left out.
C25_PostedFromCompleteMap ==
    ext.posted.command # "none" => ~ext.posted.partial

====
